---- MODULE Spec2Model ----
(***************************************************************************)
(* Flash sale engine: the TCP server (accept loop, one handler per         *)
(* connection, the purchase attempt with its Lua script, the asynchronous  *)
(* event publish, Shutdown), the Redis store it shares with other server   *)
(* processes, and the admin tool (init / reset) working on the same keys.  *)
(***************************************************************************)
EXTENDS Integers, Sequences, FiniteSets, Bags, TLC

(***************************************************************************)
(* Bounds of the model.                                                    *)
(***************************************************************************)
NumConns == 2      \* connections that may be accepted, over all servers
MaxStock == 2      \* largest stock the admin tool initialises a product with
MaxRequests == 3   \* frames read by the handlers, over all connections
MaxFaults == 1     \* communication failures (store, response write, accept)
MaxAdminOps == 1   \* admin init commands run while the servers are up
MaxShutdowns == 1  \* servers on which Shutdown is called
MaxFrames == 2     \* frames the peer writes on the connection seen as bytes

(***************************************************************************)
(* Program constants.                                                      *)
(***************************************************************************)
MaxRetries == 3               \* redis.Options.MaxRetries
MSG_ATTEMPT_PURCHASE == 1     \* 0x01
UnknownTypes == {2}           \* type bytes other than 0x01 a peer may send
MaxPayloadLen == 1048576      \* 1024*1024, the largest length readFrame accepts

STATUS_SUCCESS == "SUCCESS"
STATUS_SOLD_OUT == "SOLD_OUT"
STATUS_ERROR == "ERROR"

Servers == {1, 2}             \* server processes sharing one store
Conns == 1..NumConns
ServerOf(c) == ((c - 1) % 2) + 1
Products == {"p1"}
UserNames == <<"u1", "u2", "u3", "u4">>
UserOf(c) == UserNames[((c - 1) % 4) + 1]
StockValues == (0..MaxStock) \cup {-1}

VARIABLES
    stock,          \* product:<id>:stock   <<>> when the key is absent, else <<n>>
    buyers,         \* product:<id>:buyers  the list, head first
    events,         \* messages delivered on channel flashsale_events (a bag)
    adminPc,        \* the admin tool: <<"idle">>, or between its two commands
    adminOps,       \* admin commands run so far
    ctxDone,        \* per server: s.ctx is cancelled
    listenerClosed, \* per server: s.listener is closed
    redisClosed,    \* per server: s.redis is closed
    wg,             \* per server: the WaitGroup counter
    acceptPc,       \* per server: position of acceptLoop
    shutdownPc,     \* per server: position of Shutdown
    pc,             \* per connection: position of handleConnection
    req,            \* per connection: the frame read
    attempt,        \* per connection: retry attempt of the EVALSHA command
    reply,          \* per connection: the script's reply travelling back
    resp,           \* per connection: the response payload to write
    pubs,           \* publishEvent goroutines not yet finished
    faults,         \* communication failures so far
    nReq,           \* frames read so far
    tally,          \* history: responses delivered to valid attempts since the
                    \* last init, by status
    initialStock,   \* history: stock given to the last init (0 when never)
    epoch,          \* history: number of inits of the product
    decrements,     \* history: successful decrements since the last init
    execs,          \* history: per connection, script runs for this request
    successLog,     \* history: SUCCESS responses produced since the last init
    peerStalled,    \* per connection: the peer has stopped reading responses
    inStream,       \* one connection at byte level: bytes sent, not yet read
    outStream,      \* one connection at byte level: response bytes written
    streamErr,      \* one connection at byte level: "" or why the handler returned
    peerPc,         \* one connection at byte level: the peer inside writeFrame
    written,        \* history: frames the peer has called writeFrame with
    decoded         \* history: frames readFrame has returned

storeVars == <<stock, buyers>>
adminVars == <<adminPc, adminOps>>
serverVars == <<ctxDone, listenerClosed, redisClosed, wg, acceptPc, shutdownPc>>
connVars == <<pc, req, attempt, reply, resp>>
histVars == <<tally, initialStock, epoch, decrements, execs, successLog>>
streamVars == <<inStream, outStream, streamErr, peerPc, written, decoded>>
peerVars == <<peerStalled, streamVars>>
engineVars == <<stock, buyers, events, adminPc, adminOps, ctxDone,
                listenerClosed, redisClosed, wg, acceptPc, shutdownPc, pc, req,
                attempt, reply, resp, pubs, faults, nReq, tally, initialStock,
                epoch, decrements, execs, successLog>>
vars == <<stock, buyers, events, adminPc, adminOps, ctxDone, listenerClosed,
          redisClosed, wg, acceptPc, shutdownPc, pc, req, attempt, reply, resp,
          pubs, faults, nReq, tally, initialStock, epoch, decrements,
          execs, successLog, peerStalled, inStream, outStream, streamErr,
          peerPc, written, decoded>>

(***************************************************************************)
(* The store.                                                              *)
(***************************************************************************)
HasStock(p) == stock[p] # <<>>
StockOf(p) == stock[p][1]

\* The script with the test "stock >= 0" in place of "stock > 0".
LuaScriptSellsAtZero(st, by, user) ==
    IF st # <<>> /\ st[1] >= 0
    THEN [stock |-> <<st[1] - 1>>, buyers |-> <<user>> \o by,
          ret |-> <<1, st[1] - 1>>]
    ELSE [stock |-> st, buyers |-> by, ret |-> <<0, 0>>]

\* The script returning the stock before the decrement.
LuaScriptStaleReturn(st, by, user) ==
    IF st # <<>> /\ st[1] > 0
    THEN [stock |-> <<st[1] - 1>>, buyers |-> <<user>> \o by,
          ret |-> <<1, st[1]>>]
    ELSE [stock |-> st, buyers |-> by, ret |-> <<0, 0>>]

\* The script refusing a user that is already in the ledger.
LuaScriptOncePerUser(st, by, user) ==
    IF st # <<>> /\ st[1] > 0 /\ \A i \in 1..Len(by) : by[i] # user
    THEN [stock |-> <<st[1] - 1>>, buyers |-> <<user>> \o by,
          ret |-> <<1, st[1] - 1>>]
    ELSE [stock |-> st, buyers |-> by, ret |-> <<0, 0>>]

\* The script with DECR ahead of the test.
LuaScriptDecrementsFirst(st, by, user) ==
    IF st # <<>> /\ st[1] > 0
    THEN [stock |-> <<st[1] - 1>>, buyers |-> <<user>> \o by,
          ret |-> <<1, st[1] - 1>>]
    ELSE [stock |-> IF st = <<>> THEN <<-1>> ELSE <<st[1] - 1>>,
          buyers |-> by, ret |-> <<0, 0>>]

\* luaScript, run atomically by the store on the two keys of one product:
\* GET; if stock and stock > 0 then DECR, LPUSH (at the head), {1, stock - 1}
\* else {0, 0}.
LuaScript(st, by, user) ==
    IF st # <<>> /\ st[1] > 0
    THEN [stock |-> <<st[1] - 1>>, buyers |-> <<user>> \o by,
          ret |-> <<1, st[1] - 1>>]
    ELSE [stock |-> st, buyers |-> by, ret |-> <<0, 0>>]

(***************************************************************************)
(* Requests and responses.                                                 *)
(***************************************************************************)
\* A payload: bytes that json.Unmarshal rejects, or a JSON object whose
\* absent fields decode to "".
BadJson == [valid |-> FALSE, product_id |-> "", user_id |-> ""]
Payloads(c) ==
    {BadJson} \cup
    {[valid |-> TRUE, product_id |-> p, user_id |-> u] :
        p \in Products \cup {""}, u \in {UserOf(c), ""}}
Frames(c) ==
    {[type |-> MSG_ATTEMPT_PURCHASE, payload |-> x] : x \in Payloads(c)} \cup
    {[type |-> t, payload |-> BadJson] : t \in UnknownTypes}
NoFrame == [type |-> 0, payload |-> BadJson]

PurchaseResponse(status, remaining, error) ==
    [Status |-> status, RemainingStock |-> remaining, Error |-> error]
NoResponse == PurchaseResponse("", 0, "")

\* json.Marshal of a PurchaseResponse: remaining_stock and error carry
\* omitempty, so a zero RemainingStock and an empty Error are left out.
JsonMarshal(r) ==
    [keys |-> {"status"}
              \cup (IF r.RemainingStock # 0 THEN {"remaining_stock"} ELSE {})
              \cup (IF r.Error # "" THEN {"error"} ELSE {}),
     status |-> r.Status, remaining_stock |-> r.RemainingStock,
     error |-> r.Error]

\* json.Unmarshal into a PurchaseResponse, as Client.AttemptPurchase does:
\* an absent field keeps its zero value.
JsonUnmarshal(j) ==
    PurchaseResponse(j.status,
                     IF "remaining_stock" \in j.keys THEN j.remaining_stock ELSE 0,
                     IF "error" \in j.keys THEN j.error ELSE "")

NoReply == [ret |-> <<0, 0>>, epoch |-> 0, k |-> 0]
NoTally == [x \in {STATUS_SUCCESS, STATUS_SOLD_OUT, STATUS_ERROR} |-> 0]

(***************************************************************************)
(* Initial state: every server has run NewServer and Start (wg counts the  *)
(* accept loop), no connection exists, and the store holds no record yet:  *)
(* the admin tool creates it.                                              *)
(***************************************************************************)
Init ==
    /\ stock = [p \in Products |-> <<>>]
    /\ initialStock = [p \in Products |-> 0]
    /\ buyers = [p \in Products |-> <<>>]
    /\ events = EmptyBag
    /\ adminPc = <<"idle">>
    /\ adminOps = 0
    /\ ctxDone = [s \in Servers |-> FALSE]
    /\ listenerClosed = [s \in Servers |-> FALSE]
    /\ redisClosed = [s \in Servers |-> FALSE]
    /\ wg = [s \in Servers |-> 1]
    /\ acceptPc = [s \in Servers |-> "accept"]
    /\ shutdownPc = [s \in Servers |-> "idle"]
    /\ pc = [c \in Conns |-> "none"]
    /\ req = [c \in Conns |-> NoFrame]
    /\ attempt = [c \in Conns |-> 0]
    /\ reply = [c \in Conns |-> NoReply]
    /\ resp = [c \in Conns |-> JsonMarshal(NoResponse)]
    /\ pubs = {}
    /\ faults = 0
    /\ nReq = 0
    /\ tally = NoTally
    /\ epoch = [p \in Products |-> 0]
    /\ decrements = [p \in Products |-> 0]
    /\ execs = [c \in Conns |-> 0]
    /\ successLog = [p \in Products |-> {}]
    /\ peerStalled = [c \in Conns |-> FALSE]
    /\ inStream = <<>>
    /\ outStream = <<>>
    /\ streamErr = ""
    /\ peerPc = "idle"
    /\ written = <<>>
    /\ decoded = <<>>

(***************************************************************************)
(* The admin tool.                                                         *)
(***************************************************************************)
\* initProduct, first command: SET product:<id>:stock <stock>.
InitSet(p, n) ==
    /\ adminPc = <<"idle">>
    /\ adminOps < MaxAdminOps
    /\ stock' = [stock EXCEPT ![p] = <<n>>]
    /\ adminPc' = <<"initDel", p>>
    /\ adminOps' = adminOps + 1
    /\ initialStock' = [initialStock EXCEPT ![p] = n]
    /\ epoch' = [epoch EXCEPT ![p] = @ + 1]
    /\ decrements' = [decrements EXCEPT ![p] = 0]
    /\ successLog' = [successLog EXCEPT ![p] = {}]
    /\ tally' = NoTally
    /\ UNCHANGED <<peerVars, buyers, events, serverVars, connVars, pubs, faults, nReq,
                   execs>>

\* initProduct, second command: DEL product:<id>:buyers.
InitDel ==
    /\ adminPc[1] = "initDel"
    /\ buyers' = [buyers EXCEPT ![adminPc[2]] = <<>>]
    /\ adminPc' = <<"idle">>
    /\ UNCHANGED <<peerVars, stock, events, adminOps, serverVars, connVars, pubs, faults,
                   nReq, histVars>>

\* resetProduct, first command: DEL product:<id>:stock.  A reset is the
\* last admin command of a run.
ResetDelStock(p) ==
    /\ adminPc = <<"idle">>
    /\ adminOps <= MaxAdminOps
    /\ stock' = [stock EXCEPT ![p] = <<>>]
    /\ adminPc' = <<"resetDel", p>>
    /\ adminOps' = MaxAdminOps + 1
    /\ UNCHANGED <<peerVars, buyers, events, serverVars, connVars, pubs, faults, nReq,
                   histVars>>

\* The reset that deletes the stock key only.
ResetDelBuyersKeepsLedger ==
    /\ adminPc[1] = "resetDel"
    /\ adminPc' = <<"idle">>
    /\ UNCHANGED <<peerVars, storeVars, events, adminOps, serverVars, connVars,
                   pubs, faults, nReq, histVars>>

\* resetProduct, second command: DEL product:<id>:buyers.
ResetDelBuyers ==
    /\ adminPc[1] = "resetDel"
    /\ buyers' = [buyers EXCEPT ![adminPc[2]] = <<>>]
    /\ adminPc' = <<"idle">>
    /\ UNCHANGED <<peerVars, stock, events, adminOps, serverVars, connVars, pubs, faults,
                   nReq, histVars>>

\* showStatus: GET of the stock key ("not found" on redis.Nil), then LLEN of
\* the buyers key.
ShowStatus(p) ==
    IF HasStock(p)
    THEN [found |-> TRUE, stock |-> StockOf(p), buyers |-> Len(buyers[p])]
    ELSE [found |-> FALSE, stock |-> 0, buyers |-> 0]

\* showBuyers: LRANGE 0 -1 of the buyers key, the list from its head, printed
\* in that order.
ShowBuyers(p) == buyers[p]

(***************************************************************************)
(* acceptLoop.                                                             *)
(***************************************************************************)
\* listener.Accept returns a connection; wg.Add(1); go handleConnection(conn).
AcceptConn(s, c) ==
    /\ acceptPc[s] = "accept"
    /\ ~listenerClosed[s]
    /\ ServerOf(c) = s
    /\ pc[c] = "none"
    /\ wg' = [wg EXCEPT ![s] = @ + 1]
    /\ pc' = [pc EXCEPT ![c] = "loop"]
    /\ UNCHANGED <<peerVars, storeVars, events, adminVars, ctxDone, listenerClosed,
                   redisClosed, acceptPc, shutdownPc, req, attempt, reply, resp,
                   pubs, faults, nReq, histVars>>

\* The accept loop that returns on any Accept error.
AcceptErrorReturns(s) ==
    /\ acceptPc[s] = "accept"
    /\ \/ listenerClosed[s] /\ faults' = faults
       \/ ~listenerClosed[s] /\ faults < MaxFaults /\ faults' = faults + 1
    /\ acceptPc' = [acceptPc EXCEPT ![s] = "done"]
    /\ wg' = [wg EXCEPT ![s] = @ - 1]
    /\ UNCHANGED <<peerVars, storeVars, events, adminVars, ctxDone,
                   listenerClosed, redisClosed, shutdownPc, connVars, pubs,
                   nReq, histVars>>

\* listener.Accept returns an error (the listener is closed, or a passing
\* failure), then the select on ctx.Done: return, with the deferred wg.Done,
\* when cancelled; else log and continue.
AcceptError(s) ==
    /\ acceptPc[s] = "accept"
    /\ \/ listenerClosed[s] /\ faults' = faults
       \/ ~listenerClosed[s] /\ faults < MaxFaults /\ faults' = faults + 1
    /\ IF ctxDone[s]
       THEN /\ acceptPc' = [acceptPc EXCEPT ![s] = "done"]
            /\ wg' = [wg EXCEPT ![s] = @ - 1]
       ELSE UNCHANGED <<acceptPc, wg>>
    /\ UNCHANGED <<peerVars, storeVars, events, adminVars, ctxDone, listenerClosed,
                   redisClosed, shutdownPc, connVars, pubs, nReq, histVars>>

(***************************************************************************)
(* Shutdown: cancel(); listener.Close(); wg.Wait(); redis.Close().         *)
(***************************************************************************)
ShutdownCancel(s) ==
    /\ shutdownPc[s] = "idle"
    /\ Cardinality({t \in Servers : shutdownPc[t] # "idle"}) < MaxShutdowns
    /\ ctxDone' = [ctxDone EXCEPT ![s] = TRUE]
    /\ shutdownPc' = [shutdownPc EXCEPT ![s] = "closeListener"]
    /\ UNCHANGED <<peerVars, storeVars, events, adminVars, listenerClosed, redisClosed,
                   wg, acceptPc, connVars, pubs, faults, nReq, histVars>>

ShutdownCloseListener(s) ==
    /\ shutdownPc[s] = "closeListener"
    /\ listenerClosed' = [listenerClosed EXCEPT ![s] = TRUE]
    /\ shutdownPc' = [shutdownPc EXCEPT ![s] = "wait"]
    /\ UNCHANGED <<peerVars, storeVars, events, adminVars, ctxDone, redisClosed, wg,
                   acceptPc, connVars, pubs, faults, nReq, histVars>>

\* The wait that returns as soon as the accept loop has exited.
ShutdownWaitAcceptLoopOnly(s) ==
    /\ shutdownPc[s] = "wait"
    /\ acceptPc[s] = "done"
    /\ shutdownPc' = [shutdownPc EXCEPT ![s] = "closeRedis"]
    /\ UNCHANGED <<peerVars, storeVars, events, adminVars, ctxDone, listenerClosed,
                   redisClosed, wg, acceptPc, connVars, pubs, faults, nReq,
                   histVars>>

\* s.wg.Wait(): returns when the counter is zero.
ShutdownWait(s) ==
    /\ shutdownPc[s] = "wait"
    /\ wg[s] = 0
    /\ shutdownPc' = [shutdownPc EXCEPT ![s] = "closeRedis"]
    /\ UNCHANGED <<peerVars, storeVars, events, adminVars, ctxDone, listenerClosed,
                   redisClosed, wg, acceptPc, connVars, pubs, faults, nReq,
                   histVars>>

ShutdownCloseRedis(s) ==
    /\ shutdownPc[s] = "closeRedis"
    /\ redisClosed' = [redisClosed EXCEPT ![s] = TRUE]
    /\ shutdownPc' = [shutdownPc EXCEPT ![s] = "done"]
    /\ UNCHANGED <<peerVars, storeVars, events, adminVars, ctxDone, listenerClosed, wg,
                   acceptPc, connVars, pubs, faults, nReq, histVars>>

(***************************************************************************)
(* handleConnection: the frame loop of one connection.                     *)
(***************************************************************************)
\* return from handleConnection: the deferred conn.Close() and wg.Done();
\* the locals of the frame cycle are gone.
HandlerReturn(c) ==
    /\ pc' = [pc EXCEPT ![c] = "closed"]
    /\ wg' = [wg EXCEPT ![ServerOf(c)] = @ - 1]
    /\ req' = [req EXCEPT ![c] = NoFrame]
    /\ resp' = [resp EXCEPT ![c] = JsonMarshal(NoResponse)]
    /\ reply' = [reply EXCEPT ![c] = NoReply]
    /\ attempt' = [attempt EXCEPT ![c] = 0]
    /\ execs' = [execs EXCEPT ![c] = 0]

\* Top of the loop: select on ctx.Done with a default branch.
LoopSelect(c) ==
    /\ pc[c] = "loop"
    /\ IF ctxDone[ServerOf(c)]
       THEN HandlerReturn(c)
       ELSE /\ pc' = [pc EXCEPT ![c] = "read"]
            /\ UNCHANGED <<wg, req, resp, reply, attempt, execs>>
    /\ UNCHANGED <<peerVars, storeVars, events, adminVars, ctxDone, listenerClosed,
                   redisClosed, acceptPc, shutdownPc, pubs, faults, nReq,
                   tally, initialStock, epoch, decrements, successLog>>

\* readFrame returns an error: the peer closed the connection, the read
\* deadline passed, or the declared length is above 1 MiB.
ReadError(c) ==
    /\ pc[c] = "read"
    /\ HandlerReturn(c)
    /\ UNCHANGED <<peerVars, storeVars, events, adminVars, ctxDone, listenerClosed,
                   redisClosed, acceptPc, shutdownPc, pubs, faults, nReq,
                   tally, initialStock, epoch, decrements, successLog>>

ErrorResponse(msg) == JsonMarshal(PurchaseResponse(STATUS_ERROR, 0, msg))

\* The validation testing the product id alone.
MissingFieldProductOnly(r) == r.product_id = ""

\* handlePurchaseAttempt: req.ProductID == "" || req.UserID == "".
MissingField(r) == r.product_id = "" \/ r.user_id = ""

\* What processMessage answers without calling the store; "" when the
\* request goes on to the script.
ImmediateError(f) ==
    IF f.type # MSG_ATTEMPT_PURCHASE THEN "unknown message type"
    ELSE IF ~f.payload.valid THEN "invalid json"
    ELSE IF MissingField(f.payload) THEN "missing product_id or user_id"
    ELSE ""

\* The handler that reads the next frame while the response to the last one
\* is still to be written.
ReadFrameBeforeWrite(c, f) ==
    /\ pc[c] \in {"read", "write"}
    /\ nReq < MaxRequests
    /\ nReq' = nReq + 1
    /\ req' = [req EXCEPT ![c] = f]
    /\ IF ImmediateError(f) # ""
       THEN /\ resp' = [resp EXCEPT ![c] = ErrorResponse(ImmediateError(f))]
            /\ pc' = [pc EXCEPT ![c] = "write"]
       ELSE /\ resp' = resp
            /\ pc' = [pc EXCEPT ![c] = "evalsha"]
    /\ UNCHANGED <<peerVars, storeVars, events, adminVars, serverVars, attempt,
                   reply, pubs, faults, histVars>>

\* readFrame returns a frame the peer sent; processMessage and
\* handlePurchaseAttempt run up to the EvalSha call.
ReadFrame(c, f) ==
    /\ pc[c] = "read"
    /\ nReq < MaxRequests
    /\ nReq' = nReq + 1
    /\ req' = [req EXCEPT ![c] = f]
    /\ IF ImmediateError(f) # ""
       THEN /\ resp' = [resp EXCEPT ![c] = ErrorResponse(ImmediateError(f))]
            /\ pc' = [pc EXCEPT ![c] = "write"]
       ELSE /\ resp' = resp
            /\ pc' = [pc EXCEPT ![c] = "evalsha"]
    /\ UNCHANGED <<peerVars, storeVars, events, adminVars, serverVars, attempt, reply,
                   pubs, faults, histVars>>

\* A failed EVALSHA in the client library: a retryable failure is tried again
\* while attempts remain (Options.MaxRetries), else EvalSha returns the error
\* and handlePurchaseAttempt answers ERROR "redis error: ...".
RetryOrFail(c, retryable) ==
    IF retryable /\ attempt[c] < MaxRetries
    THEN /\ attempt' = [attempt EXCEPT ![c] = @ + 1]
         /\ pc' = [pc EXCEPT ![c] = "evalsha"]
         /\ resp' = resp
    ELSE /\ resp' = [resp EXCEPT ![c] = ErrorResponse("redis error: i/o failure")]
         /\ pc' = [pc EXCEPT ![c] = "write"]
         /\ attempt' = attempt

\* EvalSha(s.ctx, ...): the command reaches the store, which runs the script.
EvalShaExec(c) ==
    /\ pc[c] = "evalsha"
    /\ ~ctxDone[ServerOf(c)]
    /\ LET p == req[c].payload.product_id
           r == LuaScript(stock[p], buyers[p], req[c].payload.user_id)
       IN /\ stock' = [stock EXCEPT ![p] = r.stock]
          /\ buyers' = [buyers EXCEPT ![p] = r.buyers]
          /\ decrements' = [decrements EXCEPT ![p] = @ + r.ret[1]]
          /\ reply' = [reply EXCEPT ![c] =
                [ret |-> r.ret, epoch |-> epoch[p], k |-> decrements[p] + r.ret[1]]]
    /\ execs' = [execs EXCEPT ![c] = @ + 1]
    /\ pc' = [pc EXCEPT ![c] = "await"]
    /\ UNCHANGED <<peerVars, events, adminVars, serverVars, req, attempt, resp, pubs,
                   faults, nReq, tally, initialStock, epoch, successLog>>

\* EvalSha(s.ctx, ...) with s.ctx cancelled: the library returns
\* context.Canceled before sending, also when it is about to retry.
EvalShaCancelled(c) ==
    /\ pc[c] = "evalsha"
    /\ ctxDone[ServerOf(c)]
    /\ resp' = [resp EXCEPT ![c] = ErrorResponse("redis error: context canceled")]
    /\ pc' = [pc EXCEPT ![c] = "write"]
    /\ UNCHANGED <<peerVars, storeVars, events, adminVars, serverVars, req, attempt, reply,
                   pubs, faults, nReq, histVars>>

\* The command does not reach the store (no connection, write failure).
EvalShaSendFails(c) ==
    /\ pc[c] = "evalsha"
    /\ ~ctxDone[ServerOf(c)]
    /\ faults < MaxFaults
    /\ faults' = faults + 1
    /\ \E retryable \in BOOLEAN : RetryOrFail(c, retryable)
    /\ UNCHANGED <<peerVars, storeVars, events, adminVars, serverVars, req,
                   reply, pubs, nReq, histVars>>

\* The script ran but its reply does not arrive (read timeout, connection lost).
EvalShaReplyLost(c) ==
    /\ pc[c] = "await"
    /\ faults < MaxFaults
    /\ faults' = faults + 1
    /\ \E retryable \in BOOLEAN : RetryOrFail(c, retryable)
    /\ UNCHANGED <<peerVars, storeVars, events, adminVars, serverVars, req,
                   reply, pubs, nReq, histVars>>

\* The goroutine started by "go s.publishEvent(productID, userID, remaining)";
\* epoch tells apart the purchases of two inits (history).
PublishTask(c) ==
    [server |-> ServerOf(c), attempt |-> 0, epoch |-> reply[c].epoch,
     product_id |-> req[c].payload.product_id,
     buyer |-> req[c].payload.user_id, remaining |-> reply[c].ret[2]]

\* The mapping that answers SUCCESS whatever the script's first value.
ResponseOfAlwaysSuccess(ret) == PurchaseResponse(STATUS_SUCCESS, ret[2], "")

\* handlePurchaseAttempt, mapping of the script's result {success, remaining}.
ResponseOf(ret) ==
    IF ret[1] = 1
    THEN PurchaseResponse(STATUS_SUCCESS, ret[2], "")
    ELSE PurchaseResponse(STATUS_SOLD_OUT, 0, "")

\* EvalSha returns the script's result; handlePurchaseAttempt builds the
\* response and, on success, starts the publish goroutine.
EvalShaReply(c) ==
    /\ pc[c] = "await"
    /\ LET p == req[c].payload.product_id
           r == ResponseOf(reply[c].ret)
       IN /\ resp' = [resp EXCEPT ![c] = JsonMarshal(r)]
          /\ pubs' = IF r.Status = STATUS_SUCCESS
                     THEN pubs \cup {PublishTask(c)} ELSE pubs
          /\ successLog' =
                IF r.Status = STATUS_SUCCESS /\ reply[c].epoch = epoch[p]
                THEN [successLog EXCEPT ![p] =
                        @ \cup {[k |-> reply[c].k,
                                 remaining |-> JsonUnmarshal(JsonMarshal(r)).RemainingStock]}]
                ELSE successLog
    /\ pc' = [pc EXCEPT ![c] = "write"]
    /\ UNCHANGED <<peerVars, storeVars, events, adminVars, serverVars, req, attempt, reply,
                   faults, nReq, tally, initialStock, epoch, decrements,
                   execs>>

\* History: the response of c answers a valid purchase attempt and, when it
\* reports the script's result, the script ran after the last init.
Counted(c) ==
    /\ ImmediateError(req[c]) = ""
    /\ \/ resp[c].status = STATUS_ERROR
       \/ reply[c].epoch = epoch[req[c].payload.product_id]

\* The response frame carrying the type byte 0x01 whatever the request's.
ResponseFramePurchaseType(c) ==
    [type |-> MSG_ATTEMPT_PURCHASE, payload |-> resp[c]]

\* s.writeFrame(conn, msgType, response): the frame handed to writeFrame has
\* the type byte readFrame returned and the payload processMessage built.
ResponseFrame(c) == [type |-> req[c].type, payload |-> resp[c]]

\* The handler that returns after it has written an ERROR response.
WriteFrameClosesOnError(c) ==
    /\ pc[c] = "write"
    /\ ~peerStalled[c]
    /\ tally' = tally
    /\ IF resp[c].status = STATUS_ERROR
       THEN HandlerReturn(c)
       ELSE /\ pc' = [pc EXCEPT ![c] = "loop"]
            /\ req' = [req EXCEPT ![c] = NoFrame]
            /\ resp' = [resp EXCEPT ![c] = JsonMarshal(NoResponse)]
            /\ reply' = [reply EXCEPT ![c] = NoReply]
            /\ attempt' = [attempt EXCEPT ![c] = 0]
            /\ execs' = [execs EXCEPT ![c] = 0]
            /\ wg' = wg
    /\ UNCHANGED <<peerVars, storeVars, events, adminVars, ctxDone,
                   listenerClosed, redisClosed, acceptPc, shutdownPc, pubs,
                   faults, nReq, initialStock, epoch, decrements, successLog>>

\* writeFrame succeeds: the peer receives resp[c] in a frame of the request's
\* type byte; the next frame cycle starts with fresh locals.  conn.Write has
\* no deadline: it returns once the bytes are taken, which a peer that has
\* stopped reading (its window full) never allows.
WriteFrame(c) ==
    /\ pc[c] = "write"
    /\ ~peerStalled[c]
    /\ tally' = IF Counted(c)
                THEN [tally EXCEPT ![ResponseFrame(c).payload.status] = @ + 1]
                ELSE tally
    /\ pc' = [pc EXCEPT ![c] = "loop"]
    /\ req' = [req EXCEPT ![c] = NoFrame]
    /\ resp' = [resp EXCEPT ![c] = JsonMarshal(NoResponse)]
    /\ reply' = [reply EXCEPT ![c] = NoReply]
    /\ attempt' = [attempt EXCEPT ![c] = 0]
    /\ execs' = [execs EXCEPT ![c] = 0]
    /\ UNCHANGED <<peerVars, storeVars, events, adminVars, serverVars, pubs, faults, nReq,
                   initialStock, epoch, decrements, successLog>>

\* writeFrame fails: the handler logs and returns.
WriteError(c) ==
    /\ pc[c] = "write"
    /\ faults < MaxFaults
    /\ faults' = faults + 1
    /\ HandlerReturn(c)
    /\ UNCHANGED <<peerVars, storeVars, events, adminVars, ctxDone, listenerClosed,
                   redisClosed, acceptPc, shutdownPc, pubs, nReq, tally,
                   initialStock, epoch, decrements, successLog>>

(***************************************************************************)
(* publishEvent: s.redis.Publish(s.ctx, "flashsale_events", data).         *)
(***************************************************************************)
Event(e) == [product_id |-> e.product_id, buyer |-> e.buyer,
             remaining |-> e.remaining, epoch |-> e.epoch]

\* The message is delivered and Publish returns nil.
PublishOk(e) ==
    /\ e \in pubs
    /\ ~ctxDone[e.server] /\ ~redisClosed[e.server]
    /\ events' = events (+) SetToBag({Event(e)})
    /\ pubs' = pubs \ {e}
    /\ UNCHANGED <<peerVars, storeVars, adminVars, serverVars, connVars, faults, nReq,
                   histVars>>

\* The failed publish that gives the unit back: INCR of the stock, LPOP of
\* the ledger.
PublishFailsRollsBack(e) ==
    /\ e \in pubs
    /\ \/ (ctxDone[e.server] \/ redisClosed[e.server]) /\ faults' = faults
       \/ ~ctxDone[e.server] /\ ~redisClosed[e.server]
          /\ faults < MaxFaults /\ faults' = faults + 1
    /\ pubs' = pubs \ {e}
    /\ stock' = [stock EXCEPT ![e.product_id] =
                    IF @ = <<>> THEN @ ELSE <<@[1] + 1>>]
    /\ buyers' = [buyers EXCEPT ![e.product_id] =
                    IF @ = <<>> THEN @ ELSE Tail(@)]
    /\ UNCHANGED <<peerVars, events, adminVars, serverVars, connVars, nReq,
                   histVars>>

\* Publish fails without delivering: the client is closed, the context is
\* cancelled, or the store is unreachable; the failure is logged.
PublishFails(e) ==
    /\ e \in pubs
    /\ \/ (ctxDone[e.server] \/ redisClosed[e.server]) /\ faults' = faults
       \/ ~ctxDone[e.server] /\ ~redisClosed[e.server]
          /\ faults < MaxFaults /\ faults' = faults + 1
    /\ pubs' = pubs \ {e}
    /\ UNCHANGED <<peerVars, storeVars, events, adminVars, serverVars, connVars, nReq,
                   histVars>>

\* The message is delivered but the reply is lost: the library sends the
\* command again while attempts remain, else the failure is logged.
PublishReplyLost(e) ==
    /\ e \in pubs
    /\ ~ctxDone[e.server] /\ ~redisClosed[e.server]
    /\ faults < MaxFaults
    /\ faults' = faults + 1
    /\ events' = events (+) SetToBag({Event(e)})
    /\ pubs' = IF e.attempt < MaxRetries
               THEN (pubs \ {e}) \cup {[e EXCEPT !.attempt = @ + 1]}
               ELSE pubs \ {e}
    /\ UNCHANGED <<peerVars, storeVars, adminVars, serverVars, connVars, nReq, histVars>>

(***************************************************************************)
(* The peer of a connection.                                               *)
(***************************************************************************)
\* The peer stops reading its responses while the connection is open: from
\* then on a conn.Write of the handler blocks (no write deadline is set).
PeerStalls(c) ==
    /\ pc[c] \in {"loop", "read", "evalsha", "await", "write"}
    /\ ~peerStalled[c]
    /\ peerStalled' = [peerStalled EXCEPT ![c] = TRUE]
    /\ UNCHANGED <<engineVars, streamVars>>

(***************************************************************************)
(* The frame codec on bytes.  A byte string is kept as its runs of equal   *)
(* bytes, <<[b |-> byte, n |-> count], ...>> with n > 0 and neighbouring   *)
(* runs of different bytes, so that a payload of 1 MiB is one run and two  *)
(* byte strings are equal exactly when their run sequences are.            *)
(***************************************************************************)
Run(b, n) == [b |-> b, n |-> n]

RECURSIVE BLen(_)
BLen(s) == IF s = <<>> THEN 0 ELSE s[1].n + BLen(Tail(s))

BCat(a, b) ==
    IF a = <<>> THEN b
    ELSE IF b = <<>> THEN a
    ELSE IF a[Len(a)].b = b[1].b
    THEN SubSeq(a, 1, Len(a) - 1) \o <<Run(b[1].b, a[Len(a)].n + b[1].n)>>
            \o Tail(b)
    ELSE a \o b

RECURSIVE BTake(_, _)
BTake(s, k) ==
    IF k <= 0 \/ s = <<>> THEN <<>>
    ELSE IF s[1].n <= k THEN <<s[1]>> \o BTake(Tail(s), k - s[1].n)
    ELSE <<Run(s[1].b, k)>>

RECURSIVE BDrop(_, _)
BDrop(s, k) ==
    IF k <= 0 \/ s = <<>> THEN s
    ELSE IF s[1].n <= k THEN BDrop(Tail(s), k - s[1].n)
    ELSE <<Run(s[1].b, s[1].n - k)>> \o Tail(s)

BAt(s, i) == BDrop(s, i - 1)[1].b

RECURSIVE FromSeq(_)
FromSeq(q) ==
    IF q = <<>> THEN <<>> ELSE BCat(<<Run(q[1], 1)>>, FromSeq(Tail(q)))

\* The length written least significant byte first.
PutUint32LittleEndian(n) ==
    <<n % 256, (n \div 256) % 256, (n \div 65536) % 256,
      (n \div 16777216) % 256>>

\* binary.BigEndian.PutUint32(lenBuf, n).
PutUint32(n) ==
    <<(n \div 16777216) % 256, (n \div 65536) % 256, (n \div 256) % 256,
      n % 256>>

\* binary.BigEndian.Uint32(lenBuf).
Uint32(lenBuf) ==
    lenBuf[1] * 16777216 + lenBuf[2] * 65536 + lenBuf[3] * 256 + lenBuf[4]

\* uint32(len(payload)): the length itself, every payload here being
\* shorter than 2^32 bytes.
LenUint32(payload) == BLen(payload)

\* writeFrame: the three writes, TYPE, LENGTH, PAYLOAD.
TypeBytes(msgType) == FromSeq(<<msgType>>)
LengthBytes(payload) == FromSeq(PutUint32(LenUint32(payload)))
FrameBytes(msgType, payload) ==
    BCat(BCat(TypeBytes(msgType), LengthBytes(payload)), payload)

\* readFrame refusing a declared length of 1 MiB as well.
ReadFrameOfRefusesLimit(s) ==
    IF BLen(s) < 5
    THEN [err |-> "short", type |-> 0, payload |-> <<>>, rest |-> s]
    ELSE LET length == Uint32(<<BAt(s, 2), BAt(s, 3), BAt(s, 4), BAt(s, 5)>>)
         IN IF length >= MaxPayloadLen
            THEN [err |-> "payload too large", type |-> 0, payload |-> <<>>,
                  rest |-> BDrop(s, 5)]
            ELSE IF BLen(s) < 5 + length
            THEN [err |-> "short", type |-> 0, payload |-> <<>>, rest |-> s]
            ELSE [err |-> "", type |-> BAt(s, 1),
                  payload |-> BTake(BDrop(s, 5), length),
                  rest |-> BDrop(s, 5 + length)]

\* readFrame on the bytes s the stream holds: io.ReadFull of 1 byte, of 4
\* bytes, the test of the length against 1024*1024, io.ReadFull of length
\* bytes.  "short": ReadFull is waiting for bytes that are not there yet.
ReadFrameOf(s) ==
    IF BLen(s) < 5
    THEN [err |-> "short", type |-> 0, payload |-> <<>>, rest |-> s]
    ELSE LET length == Uint32(<<BAt(s, 2), BAt(s, 3), BAt(s, 4), BAt(s, 5)>>)
         IN IF length > MaxPayloadLen
            THEN [err |-> "payload too large", type |-> 0, payload |-> <<>>,
                  rest |-> BDrop(s, 5)]
            ELSE IF BLen(s) < 5 + length
            THEN [err |-> "short", type |-> 0, payload |-> <<>>, rest |-> s]
            ELSE [err |-> "", type |-> BAt(s, 1),
                  payload |-> BTake(BDrop(s, 5), length),
                  rest |-> BDrop(s, 5 + length)]

\* Type bytes and payloads a peer sends, and response payloads.
TypeSamples == {0, MSG_ATTEMPT_PURCHASE, 255}
PayloadSamples ==
    {<<>>, FromSeq(<<0>>), FromSeq(<<1, 0>>), <<Run(32, MaxPayloadLen)>>,
     <<Run(32, MaxPayloadLen + 1)>>}
ResponseSamples == {FromSeq(<<123, 125>>), FromSeq(<<0, 0, 0, 0, 0, 0>>)}

(***************************************************************************)
(* One connection seen as two byte streams: the peer writes frames with    *)
(* writeFrame, one Write at a time; the handler reads them with readFrame  *)
(* and writes one response frame for each.                                 *)
(***************************************************************************)
\* writeFrame, first Write: the type byte.
PeerWriteType(t, payload) ==
    /\ streamErr = ""
    /\ peerPc = "idle"
    /\ Len(written) < MaxFrames
    /\ inStream' = BCat(inStream, TypeBytes(t))
    /\ written' = Append(written, [type |-> t, payload |-> payload])
    /\ peerPc' = "len"
    /\ UNCHANGED <<engineVars, peerStalled, outStream, streamErr, decoded>>

\* writeFrame, second Write: the four length bytes.
PeerWriteLen ==
    /\ peerPc = "len"
    /\ inStream' = BCat(inStream, LengthBytes(written[Len(written)].payload))
    /\ peerPc' = "payload"
    /\ UNCHANGED <<engineVars, peerStalled, outStream, streamErr, written,
                   decoded>>

\* writeFrame, third Write: the payload.
PeerWritePayload ==
    /\ peerPc = "payload"
    /\ inStream' = BCat(inStream, written[Len(written)].payload)
    /\ peerPc' = "idle"
    /\ UNCHANGED <<engineVars, peerStalled, outStream, streamErr, written,
                   decoded>>

\* handleConnection, one cycle: readFrame returns a frame, processMessage
\* builds a response, writeFrame sends it with the frame's type byte.
ServeFrame(response) ==
    /\ streamErr = ""
    /\ LET r == ReadFrameOf(inStream)
       IN /\ r.err = ""
          /\ inStream' = r.rest
          /\ decoded' = Append(decoded, [type |-> r.type, payload |-> r.payload])
          /\ outStream' = BCat(outStream, FrameBytes(r.type, response))
    /\ UNCHANGED <<engineVars, peerStalled, streamErr, peerPc, written>>

\* handleConnection: readFrame returns "payload too large"; the handler
\* logs and returns.
RejectFrame ==
    /\ streamErr = ""
    /\ LET r == ReadFrameOf(inStream)
       IN /\ r.err = "payload too large"
          /\ inStream' = r.rest
          /\ streamErr' = r.err
    /\ UNCHANGED <<engineVars, peerStalled, outStream, peerPc, written,
                   decoded>>

\* handleConnection: the read deadline passes while io.ReadFull waits; the
\* handler logs and returns.
ReadTimesOut ==
    /\ streamErr = ""
    /\ ReadFrameOf(inStream).err = "short"
    /\ streamErr' = "i/o timeout"
    /\ UNCHANGED <<engineVars, peerStalled, inStream, outStream, peerPc,
                   written, decoded>>

StreamNext ==
    \/ \E t \in TypeSamples, x \in PayloadSamples : PeerWriteType(t, x)
    \/ PeerWriteLen
    \/ PeerWritePayload
    \/ \E x \in ResponseSamples : ServeFrame(x)
    \/ RejectFrame
    \/ ReadTimesOut

StreamSpec == Init /\ [][StreamNext]_vars

(***************************************************************************)
(* The system.                                                             *)
(***************************************************************************)
Next ==
    \/ \E p \in Products, n \in StockValues : InitSet(p, n)
    \/ InitDel
    \/ \E p \in Products : ResetDelStock(p)
    \/ ResetDelBuyers
    \/ \E s \in Servers, c \in Conns : AcceptConn(s, c)
    \/ \E s \in Servers : AcceptError(s)
    \/ \E s \in Servers : ShutdownCancel(s)
    \/ \E s \in Servers : ShutdownCloseListener(s)
    \/ \E s \in Servers : ShutdownWait(s)
    \/ \E s \in Servers : ShutdownCloseRedis(s)
    \/ \E c \in Conns : LoopSelect(c)
    \/ \E c \in Conns : \E f \in Frames(c) : ReadFrame(c, f)
    \/ \E c \in Conns : ReadError(c)
    \/ \E c \in Conns : EvalShaExec(c)
    \/ \E c \in Conns : EvalShaCancelled(c)
    \/ \E c \in Conns : EvalShaSendFails(c)
    \/ \E c \in Conns : EvalShaReplyLost(c)
    \/ \E c \in Conns : EvalShaReply(c)
    \/ \E c \in Conns : WriteFrame(c)
    \/ \E c \in Conns : WriteError(c)
    \/ \E e \in pubs : PublishOk(e)
    \/ \E e \in pubs : PublishFails(e)
    \/ \E e \in pubs : PublishReplyLost(e)

Spec == Init /\ [][Next]_vars

(***************************************************************************)
(* The servers and their peers under fair scheduling: every step of the    *)
(* server that is enabled is eventually taken; Accept on a closed listener *)
(* returns, the read deadline elapses, the store answers.  What a peer     *)
(* does (send a frame, stop reading, reset the connection) is its choice.  *)
(***************************************************************************)
ServeNext ==
    \/ \E s \in Servers, c \in Conns : AcceptConn(s, c)
    \/ \E s \in Servers : AcceptError(s)
    \/ \E s \in Servers : ShutdownCancel(s)
    \/ \E s \in Servers : ShutdownCloseListener(s)
    \/ \E s \in Servers : ShutdownWait(s)
    \/ \E s \in Servers : ShutdownCloseRedis(s)
    \/ \E c \in Conns : LoopSelect(c)
    \/ \E c \in Conns : \E f \in Frames(c) : ReadFrame(c, f)
    \/ \E c \in Conns : ReadError(c)
    \/ \E c \in Conns : EvalShaExec(c)
    \/ \E c \in Conns : EvalShaCancelled(c)
    \/ \E c \in Conns : EvalShaSendFails(c)
    \/ \E c \in Conns : EvalShaReplyLost(c)
    \/ \E c \in Conns : EvalShaReply(c)
    \/ \E c \in Conns : WriteFrame(c)
    \/ \E c \in Conns : WriteError(c)
    \/ \E c \in Conns : PeerStalls(c)

ServeFairness ==
    /\ \A s \in Servers :
          /\ WF_vars(listenerClosed[s] /\ AcceptError(s))
          /\ WF_vars(ShutdownCloseListener(s))
          /\ WF_vars(ShutdownWait(s))
          /\ WF_vars(ShutdownCloseRedis(s))
    /\ \A c \in Conns :
          /\ WF_vars(LoopSelect(c))
          /\ WF_vars(ReadError(c))
          /\ WF_vars(EvalShaExec(c))
          /\ WF_vars(EvalShaCancelled(c))
          /\ WF_vars(EvalShaReply(c))
          /\ WF_vars(WriteFrame(c))

FairSpec == Init /\ [][ServeNext]_vars /\ ServeFairness

(***************************************************************************)
(* Properties.                                                             *)
(***************************************************************************)
Max(a, b) == IF a >= b THEN a ELSE b
InFlight(c) == pc[c] \in {"evalsha", "await", "write"}
Running(c) == pc[c] \in {"loop", "read", "evalsha", "await", "write"}
AllSettled == \A c \in Conns : ~InFlight(c)
Answered == tally[STATUS_SUCCESS] + tally[STATUS_SOLD_OUT] + tally[STATUS_ERROR]
\* C1  Zero oversell: the SUCCESS responses produced for a product since it
\* was initialised with stock N never number more than N (none when N < 0),
\* whatever the connections, servers, store failures and retries.
ZeroOversell ==
    \A p \in Products :
        Cardinality(successLog[p]) <= Max(initialStock[p], 0)

\* C1 witness: the whole stock MaxStock was sold, every unit answered
\* SUCCESS, and a further attempt was answered SOLD_OUT.
ZeroOversellWitness ==
    \E p \in Products :
        /\ initialStock[p] = MaxStock
        /\ Cardinality(successLog[p]) = MaxStock
        /\ tally[STATUS_SOLD_OUT] >= 1

\* C2  Stock accounting: for a product initialised with stock N,
\* remaining stock + length of the buyer ledger = N in every reachable state.
StockAccounting ==
    \A p \in Products :
        HasStock(p) => StockOf(p) + Len(buyers[p]) = initialStock[p]

\* C3  No lost decrement: once nothing is in flight (and the admin init did
\* not disturb the accounting of C2), the ledger length equals the number of
\* SUCCESS responses produced for the product.
NoLostDecrement ==
    \A p \in Products :
        (/\ AllSettled
         /\ adminPc = <<"idle">>
         /\ HasStock(p)
         /\ StockOf(p) + Len(buyers[p]) = initialStock[p])
        => Len(buyers[p]) = Cardinality(successLog[p])

\* C4  Exact sell-through: stock initialised to N >= 0, a healthy store, no
\* shutdown, M >= N valid attempts all answered: exactly N SUCCESS, M - N
\* SOLD_OUT and no ERROR.
ExactSellThrough ==
    \A p \in Products :
        (/\ faults = 0
         /\ \A s \in Servers : ~ctxDone[s]
         /\ AllSettled
         /\ HasStock(p)
         /\ initialStock[p] >= 0
         /\ Answered >= initialStock[p])
        => /\ tally[STATUS_SUCCESS] = initialStock[p]
           /\ tally[STATUS_SOLD_OUT] = Answered - initialStock[p]
           /\ tally[STATUS_ERROR] = 0

\* C4 witness: MaxStock units, more answered attempts than units.
ExactSellThroughWitness ==
    \E p \in Products :
        /\ faults = 0
        /\ \A s \in Servers : ~ctxDone[s]
        /\ AllSettled
        /\ HasStock(p)
        /\ initialStock[p] = MaxStock
        /\ Answered > MaxStock
        /\ tally[STATUS_SUCCESS] = MaxStock

\* C5  Single linearization point: the k-th successful decrement since the
\* init with stock N reports remaining stock N - k, in the script's reply
\* and in the SUCCESS response built from it, and the SUCCESS responses of
\* one init carry pairwise distinct remaining_stock values.
SingleLinearization ==
    \A p \in Products :
        /\ \A r \in successLog[p] : r.remaining = initialStock[p] - r.k
        /\ Cardinality({r.remaining : r \in successLog[p]})
              = Cardinality(successLog[p])
        /\ \A c \in Conns :
              (/\ pc[c] = "await"
               /\ req[c].payload.product_id = p
               /\ reply[c].ret[1] = 1
               /\ reply[c].epoch = epoch[p])
              => reply[c].ret[2] = initialStock[p] - reply[c].k

\* C5 witness: two SUCCESS responses of one init.
SingleLinearizationWitness ==
    \E p \in Products : Cardinality(successLog[p]) >= 2

\* C6  Every SUCCESS response carries a remaining_stock field holding the
\* stock left by its decrement, also when that is 0.
SuccessCarriesRemaining ==
    \A c \in Conns :
        (pc[c] = "write" /\ resp[c].status = STATUS_SUCCESS)
        => /\ "remaining_stock" \in resp[c].keys
           /\ resp[c].remaining_stock = reply[c].ret[2]

\* C7  A purchase request whose product_id or user_id is empty is answered
\* ERROR "missing product_id or user_id" and never reaches the store: no
\* script run, no publish goroutine, no event, no ledger entry for it.
MissingFieldsRejected ==
    /\ \A c \in Conns :
          (/\ req[c].type = MSG_ATTEMPT_PURCHASE
           /\ req[c].payload.valid
           /\ (req[c].payload.product_id = "" \/ req[c].payload.user_id = ""))
          => /\ pc[c] = "write"
             /\ resp[c] = ErrorResponse("missing product_id or user_id")
             /\ execs[c] = 0
             /\ reply[c] = NoReply
    /\ \A e \in pubs : e.product_id # "" /\ e.buyer # ""
    /\ \A e \in BagToSet(events) : e.product_id # "" /\ e.buyer # ""
    /\ \A p \in Products : \A i \in 1..Len(buyers[p]) : buyers[p][i] # ""

\* C7 witness: a request naming the product but no user is about to be
\* answered while the product has stock to sell.
MissingFieldsRejectedWitness ==
    \E c \in Conns :
        /\ pc[c] = "write"
        /\ req[c].type = MSG_ATTEMPT_PURCHASE
        /\ req[c].payload.valid
        /\ req[c].payload.product_id \in Products
        /\ req[c].payload.user_id = ""
        /\ HasStock(req[c].payload.product_id)
        /\ StockOf(req[c].payload.product_id) > 0

\* C8  A store failure is never retried: one request runs the script at
\* most once.
NoAutomaticRetry == \A c \in Conns : execs[c] <= 1

\* C9  No in-flight purchase is aborted by shutdown: a request whose script
\* has run at the store is not answered with the cancellation error.
NoAbortByShutdown ==
    \A c \in Conns :
        (pc[c] = "write" /\ resp[c].error = "redis error: context canceled")
        => execs[c] = 0

\* C10  Once Shutdown has cancelled the context, the accept loop accepts no
\* connection and starts no handler.
NoAcceptAfterShutdown ==
    [][\A c \in Conns :
          (ctxDone[ServerOf(c)] /\ pc[c] = "none") => pc'[c] = "none"]_vars

\* C11  Shutdown ordering: Shutdown cancels and closes the listener, then
\* waits for the accept loop and every handler, those spawned while Shutdown
\* ran included, and only then closes the store client; the client is never
\* closed while a handler of that server is running.
ShutdownOrdering ==
    \A s \in Servers :
        /\ shutdownPc[s] \in {"wait", "closeRedis", "done"}
              => ctxDone[s] /\ listenerClosed[s]
        /\ (shutdownPc[s] \in {"closeRedis", "done"} \/ redisClosed[s])
              => /\ acceptPc[s] = "done"
                 /\ wg[s] = 0
                 /\ \A c \in Conns : ServerOf(c) = s => ~Running(c)
        /\ redisClosed[s] => shutdownPc[s] = "done"

\* C11 witness: the store client of a server is closed after a handler of
\* that server ran and exited.
ShutdownOrderingWitness ==
    \E s \in Servers, c \in Conns :
        /\ ServerOf(c) = s
        /\ redisClosed[s]
        /\ pc[c] = "closed"

\* C12  Shutdown terminates: under fair scheduling and whatever the peers
\* do, once Shutdown is called on a server its accept loop and every one of
\* its handlers exit and Shutdown returns with the store client closed.
ShutdownTerminates ==
    \A s \in Servers :
        (shutdownPc[s] # "idle")
        ~> (/\ shutdownPc[s] = "done"
            /\ redisClosed[s]
            /\ acceptPc[s] = "done"
            /\ \A c \in Conns : ServerOf(c) = s => ~Running(c))

\* C13  A frame whose type byte is not 0x01 is answered ERROR "unknown
\* message type" in a frame carrying the request's type byte; the store is
\* not touched (no script run, no publish), and once the response is written
\* the handler is back at the top of its loop: only a failed write closes.
UnknownTypeAnswered ==
    [][\A c \in Conns :
          /\ (pc[c] = "read" /\ req'[c].type \notin {MSG_ATTEMPT_PURCHASE, NoFrame.type})
                => /\ pc'[c] = "write"
                   /\ ResponseFrame(c)' =
                         [type |-> req'[c].type,
                          payload |-> ErrorResponse("unknown message type")]
                   /\ execs'[c] = 0
                   /\ UNCHANGED <<stock, buyers, events, pubs>>
          /\ (/\ pc[c] = "write"
              /\ req[c].type # MSG_ATTEMPT_PURCHASE
              /\ pc'[c] # "write")
                => /\ ResponseFrame(c).type = req[c].type
                   /\ ResponseFrame(c).payload.error = "unknown message type"
                   /\ UNCHANGED <<stock, buyers, events, pubs>>
                   /\ pc'[c] = "loop" \/ faults' = faults + 1]_vars

\* C13 witness: a frame of an unknown type is about to be answered while the
\* product has stock to sell.
UnknownTypeAnsweredWitness ==
    \E c \in Conns, p \in Products :
        /\ pc[c] = "write"
        /\ req[c].type \in UnknownTypes
        /\ HasStock(p)
        /\ StockOf(p) > 0

\* C14  Business-level failures never close the connection: an ERROR
\* response (invalid json, missing fields, store failure) once written leaves
\* the handler at the top of its loop, from where it reads again and passes
\* a valid request to the store; a handler returns only on a read error, on
\* a write failure, or at the top of the loop once the server is shut down.
ErrorsKeepConnection ==
    [][\A c \in Conns :
          /\ (/\ pc[c] = "write"
              /\ resp[c].status = STATUS_ERROR
              /\ pc'[c] # "write")
                => pc'[c] = "loop" \/ faults' = faults + 1
          /\ (pc[c] = "loop" /\ pc'[c] # "loop" /\ ~ctxDone[ServerOf(c)])
                => pc'[c] = "read"
          /\ (/\ pc[c] = "read"
              /\ req'[c] # NoFrame
              /\ req'[c].type = MSG_ATTEMPT_PURCHASE
              /\ req'[c].payload.valid
              /\ req'[c].payload.product_id # ""
              /\ req'[c].payload.user_id # "")
                => pc'[c] = "evalsha"
          /\ (pc[c] # "closed" /\ pc'[c] = "closed")
                => \/ pc[c] = "read"
                   \/ pc[c] = "write" /\ faults' = faults + 1
                   \/ pc[c] = "loop" /\ ctxDone[ServerOf(c)]]_vars

\* C14 witness: on the only connection accepted so far, a purchase was
\* answered ERROR after a store failure and a later purchase on it is being
\* answered SUCCESS.
ErrorsKeepConnectionWitness ==
    \E c \in Conns :
        /\ pc[c] = "write"
        /\ resp[c].status = STATUS_SUCCESS
        /\ tally[STATUS_ERROR] >= 1
        /\ \A d \in Conns \ {c} : pc[d] = "none"

\* The frames a reader gets from the byte string s, one readFrame after the
\* other, until it finds no whole frame.
RECURSIVE ParseAll(_)
ParseAll(s) ==
    IF ReadFrameOf(s).err # "" THEN <<>>
    ELSE <<[type |-> ReadFrameOf(s).type, payload |-> ReadFrameOf(s).payload]>>
            \o ParseAll(ReadFrameOf(s).rest)

\* The bytes of a sequence of frames written one after the other.
RECURSIVE FramesBytes(_)
FramesBytes(fs) ==
    IF fs = <<>> THEN <<>>
    ELSE BCat(FrameBytes(fs[1].type, fs[1].payload), FramesBytes(Tail(fs)))

\* The bytes the peer has written and the handler has not consumed, if each
\* readFrame consumed exactly 1 + 4 + length bytes.
PendingBytes ==
    LET all == FramesBytes(SubSeq(written, Len(decoded) + 1, Len(written)))
        last == written[Len(written)].payload
    IN IF peerPc = "len" THEN BTake(all, BLen(all) - (4 + BLen(last)))
       ELSE IF peerPc = "payload" THEN BTake(all, BLen(all) - BLen(last))
       ELSE all

\* C15  Oversized rejection: when the header of a frame declares more than
\* 1 MiB the handler returns without decoding it and without writing a
\* response frame for it; a frame is never refused as too large when it
\* declares 1 MiB or less, and every frame processed has one response.
OversizedRejected ==
    /\ \A i \in 1..Len(decoded) : BLen(decoded[i].payload) <= MaxPayloadLen
    /\ Len(ParseAll(outStream)) = Len(decoded)
    /\ streamErr = "payload too large"
          => /\ Len(decoded) < Len(written)
             /\ BLen(written[Len(decoded) + 1].payload) > MaxPayloadLen
    /\ (Len(decoded) < Len(written)
          /\ BLen(written[Len(decoded) + 1].payload) > MaxPayloadLen
          /\ streamErr = ""
          /\ BLen(inStream) >= 5)
          => ReadFrameOf(inStream).err = "payload too large"

\* C15 witness: a frame of exactly 1 MiB was processed and answered, and the
\* next frame, declaring one byte more, made the handler return.
OversizedRejectedWitness ==
    /\ streamErr = "payload too large"
    /\ Len(decoded) = 1
    /\ BLen(decoded[1].payload) = MaxPayloadLen
    /\ Len(ParseAll(outStream)) = 1
    /\ BLen(written[2].payload) = MaxPayloadLen + 1

\* C20  Frame round-trip: the frames readFrame returns are, in order, the
\* frames given to writeFrame, with the same type byte and the same payload
\* bytes, the empty payload and the payload of 1 MiB included; each readFrame
\* consumes exactly 1 + 4 + length bytes, so that what is left in the stream
\* is the bytes of the frames not yet read and the next frame decodes on its
\* own; and a frame followed by any other bytes decodes to itself and
\* leaves those bytes.
FrameRoundTrip ==
    /\ Len(decoded) <= Len(written)
    /\ \A i \in 1..Len(decoded) : decoded[i] = written[i]
    /\ streamErr = "" => inStream = PendingBytes
    /\ (/\ streamErr = ""
        /\ peerPc = "idle"
        /\ Len(decoded) < Len(written)
        /\ BLen(written[Len(decoded) + 1].payload) <= MaxPayloadLen)
          => /\ ReadFrameOf(inStream).err = ""
             /\ ReadFrameOf(inStream).type = written[Len(decoded) + 1].type
             /\ ReadFrameOf(inStream).payload
                   = written[Len(decoded) + 1].payload
             /\ BLen(ReadFrameOf(inStream).rest)
                   = BLen(inStream)
                       - (1 + 4 + BLen(written[Len(decoded) + 1].payload))
    /\ \A f \in {written[i] : i \in 1..Len(written)} :
          \A rest \in {<<>>, inStream, outStream} :
              BLen(f.payload) <= MaxPayloadLen
              => ReadFrameOf(BCat(FrameBytes(f.type, f.payload), rest))
                   = [err |-> "", type |-> f.type, payload |-> f.payload,
                      rest |-> rest]
    /\ \A i \in 1..Len(ParseAll(outStream)) :
          /\ ParseAll(outStream)[i].type = decoded[i].type
          /\ ParseAll(outStream)[i].payload \in ResponseSamples

\* C20 witness: the peer wrote a frame with the empty payload and a frame
\* with a payload of 1 MiB, of different type bytes, and readFrame has
\* returned both.
FrameRoundTripWitness ==
    /\ Len(decoded) = 2
    /\ \E i, j \in 1..2 :
          /\ decoded[i].payload = <<>>
          /\ BLen(decoded[j].payload) = MaxPayloadLen
          /\ decoded[i].type # decoded[j].type

\* The response the handler of c is about to write is the one built for the
\* request it holds: the immediate error of that request, or the outcome of
\* the store call made for it.
AnswersRequest(c) ==
    pc[c] = "write"
    => /\ req[c] # NoFrame
       /\ ResponseFrame(c).type = req[c].type
       /\ IF ImmediateError(req[c]) # ""
          THEN resp[c] = ErrorResponse(ImmediateError(req[c])) /\ execs[c] = 0
          ELSE \/ resp[c].status = STATUS_ERROR
                  /\ resp[c].error \in {"redis error: i/o failure",
                                         "redis error: context canceled"}
               \/ execs[c] >= 1 /\ resp[c] = JsonMarshal(ResponseOf(reply[c].ret))

\* C16  Per-connection ordering: a handler decodes a request only when it
\* holds none (the response to the previous one has been written), a request
\* it holds is dropped only by the write of its one response (or by the
\* return after that write failed), reading starts only from the top of the
\* loop, and the response written is the one built for the request held.
PerConnectionOrdering ==
    [][\A c \in Conns :
          /\ AnswersRequest(c) /\ AnswersRequest(c)'
          /\ (req'[c] # req[c] /\ req'[c] # NoFrame)
                => /\ pc[c] = "read"
                   /\ req[c] = NoFrame
                   /\ resp[c] = JsonMarshal(NoResponse)
                   /\ pc'[c] \in {"evalsha", "write"}
          /\ (req[c] # NoFrame /\ req'[c] = NoFrame)
                => pc[c] = "write" /\ pc'[c] \in {"loop", "closed"}
          /\ (pc[c] # "read" /\ pc'[c] = "read") => pc[c] = "loop"
          /\ (pc[c] # "loop" /\ pc'[c] = "loop") => pc[c] \in {"none", "write"}
          /\ (pc[c] # "write" /\ pc'[c] = "write")
                => pc[c] \in {"read", "evalsha", "await"}]_vars

\* C16 witness: the only connection accepted is about to write the response
\* to its third request, a purchase the store has run.
PerConnectionOrderingWitness ==
    \E c \in Conns :
        /\ pc[c] = "write"
        /\ nReq = 3
        /\ execs[c] >= 1
        /\ \A d \in Conns \ {c} : pc[d] = "none"

\* C17  Buyer ledger order: the ledger, as stored and as listed by the admin
\* tool, holds the buyers in the order of their decrements, earliest first:
\* a successful purchase adds its buyer after the entries already there and
\* leaves those as they were.
LedgerInDecrementOrder ==
    [][\A p \in Products :
          Len(buyers'[p]) = Len(buyers[p]) + 1
          => SubSeq(ShowBuyers(p)', 1, Len(buyers[p])) = ShowBuyers(p)]_vars

\* C18  Purchase events: every event on the channel belongs to a purchase
\* whose decrement succeeded, names its product and buyer and carries the
\* remaining stock its decrement left, and is there at most once.
PurchaseEvents ==
    \A e \in BagToSet(events) :
        /\ CopiesIn(e, events) = 1
        /\ e.product_id \in Products
        /\ e.buyer # ""
        /\ e.epoch = epoch[e.product_id]
              => e.remaining \in 0..(initialStock[e.product_id] - 1)

\* C19  Idempotent reset: a reset of a product with no record leaves the
\* store as it is; when a reset completes, status reports "not found" and
\* the buyers listing is empty; and from a state with no record no purchase
\* attempt creates one: each script run there returns {0, 0}, answered
\* SOLD_OUT.
IdempotentReset ==
    [][\A p \in Products :
          /\ (adminPc[1] = "resetDel" /\ adminPc[2] = p /\ adminPc' = <<"idle">>)
                => /\ ~ShowStatus(p)'.found
                   /\ ShowBuyers(p)' = <<>>
          /\ (/\ ~HasStock(p)
              /\ buyers[p] = <<>>
              /\ adminPc' # <<"initDel", p>>)
                => /\ ~HasStock(p)'
                   /\ buyers'[p] = <<>>
          /\ \A c \in Conns :
                (/\ ~HasStock(p)
                 /\ execs'[c] = execs[c] + 1
                 /\ req[c].payload.product_id = p)
                => /\ reply'[c].ret = <<0, 0>>
                   /\ ResponseOf(reply'[c].ret).Status = STATUS_SOLD_OUT
                   /\ UNCHANGED <<stock, buyers>>]_vars

\* C19 witness: a product initialised with stock, sold once and then reset
\* while stock was left; a purchase attempt made after the init finds no
\* record and the store is empty.
IdempotentResetWitness ==
    \E p \in Products, c \in Conns :
        /\ adminOps = MaxAdminOps + 1
        /\ adminPc = <<"idle">>
        /\ decrements[p] >= 1
        /\ decrements[p] < initialStock[p]
        /\ ~HasStock(p)
        /\ buyers[p] = <<>>
        /\ pc[c] = "await"
        /\ reply[c].epoch = epoch[p]
        /\ epoch[p] >= 1
        /\ reply[c].ret = <<0, 0>>

\* C21  No deduplication by user id: a run of the script that finds stock
\* > 0 succeeds, whoever is already in the ledger: it takes one unit, puts
\* the user in the ledger once more and its result is answered SUCCESS.
NoDeduplication ==
    [][\A c \in Conns : \A p \in Products :
          (/\ execs'[c] = execs[c] + 1
           /\ req[c].payload.product_id = p
           /\ HasStock(p)
           /\ StockOf(p) > 0)
          => /\ reply'[c].ret = <<1, StockOf(p) - 1>>
             /\ ResponseOf(reply'[c].ret).Status = STATUS_SUCCESS
             /\ stock'[p] = <<StockOf(p) - 1>>
             /\ buyers'[p] = <<req[c].payload.user_id>> \o buyers[p]]_vars

\* C21 witness: with no communication failure, the same user holds the two
\* entries of a ledger and two SUCCESS responses were produced.
NoDeduplicationWitness ==
    \E p \in Products :
        /\ faults = 0
        /\ Len(buyers[p]) = 2
        /\ buyers[p][1] = buyers[p][2]
        /\ Cardinality(successLog[p]) = 2

\* C22  Event publishing never affects the purchase outcome: a step of a
\* publish goroutine (delivery, failure, retry) changes neither the stock,
\* nor the ledger, nor any handler's request, reply or response; and the
\* response built from a successful script result is SUCCESS with the
\* script's remaining value, whatever the publish goroutines and the store
\* client are doing.
PublishNeverAffectsOutcome ==
    [][/\ (~(pubs \subseteq pubs') \/ events' # events)
            => UNCHANGED <<storeVars, connVars, tally, successLog, decrements,
                           execs, wg>>
       /\ \A c \in Conns :
            (/\ pc[c] = "await"
             /\ pc'[c] = "write"
             /\ reply[c].ret[1] = 1
             /\ faults' = faults)
            => /\ resp'[c] = JsonMarshal(
                    PurchaseResponse(STATUS_SUCCESS, reply[c].ret[2], ""))
               /\ pubs \subseteq pubs'
       /\ \A c \in Conns :
            (pc[c] = "write" /\ pc'[c] = "loop") => UNCHANGED <<pubs, events>>
      ]_vars

\* C22 witness: every response has been written, a SUCCESS among them, while
\* a publish goroutine has still to run, on a server whose store client is
\* already closed.
PublishNeverAffectsOutcomeWitness ==
    /\ AllSettled
    /\ tally[STATUS_SUCCESS] >= 1
    /\ \E e \in pubs : redisClosed[e.server]

\* C23  Idle and abandoned peers are bounded: under fair scheduling every
\* connection whose peer makes no further progress is eventually closed and
\* its handler exits; the peers here send finitely many frames, so this is
\* every accepted connection.
AbandonedPeersBounded ==
    \A c \in Conns : Running(c) ~> (pc[c] = "closed")

\* C24  The accept loop survives accept failures: the accept loop of a
\* server exits only once the shutdown signal of that server is raised; a
\* failed Accept before that leaves the loop where it was, with its count in
\* the WaitGroup, and while the loop runs on an open listener a connection
\* that arrives is accepted and gets a handler.
AcceptLoopSurvives ==
    /\ [](\A s \in Servers :
            /\ acceptPc[s] = "done" => ctxDone[s]
            /\ acceptPc[s] = "accept" => wg[s] >= 1
            /\ (acceptPc[s] = "accept" /\ ~listenerClosed[s])
                  => \A c \in Conns :
                        (ServerOf(c) = s /\ pc[c] = "none")
                        => ENABLED AcceptConn(s, c))
    /\ [][\A s \in Servers :
            (acceptPc[s] = "accept" /\ ~ctxDone[s])
            => /\ acceptPc'[s] = "accept"
               /\ wg'[s] >= 1]_vars

\* C24 witness: an Accept has failed (the one failure of the run, with no
\* frame read yet, can only be that), no shutdown is signalled, and a
\* connection has been accepted and handed to a handler.
AcceptLoopSurvivesWitness ==
    \E c \in Conns :
        /\ faults = 1
        /\ nReq = 0
        /\ \A s \in Servers : ~ctxDone[s] /\ acceptPc[s] = "accept"
        /\ pc[c] = "read"

NoStoreUseAfterClose ==
    \A s \in Servers :
        redisClosed[s]
        => /\ \A c \in Conns :
                ServerOf(c) = s => pc[c] \notin {"evalsha", "await"}
           /\ \A e \in pubs : e.server # s
====
